---- MODULE Spec2Model ----
(***************************************************************************)
(* Ace Attorney pairing generator (assets/main.js).                        *)
(*                                                                         *)
(* State: the global roster `characters`, the position of the page's load  *)
(* handler inside loadCharacters, the inline state of the two DOM elements *)
(* generatePairing writes (#error, #pairing) and the frame of the getPairing*)
(* call that ran last or is running.  The host is single threaded: while a *)
(* getPairing call sits in its redraw loop no other handler can run.       *)
(*                                                                         *)
(* Not modelled: the console lines, and the name / image / alt writes of   *)
(* generatePairing (lines 190-196).                                        *)
(***************************************************************************)
EXTENDS Integers, Sequences, FiniteSets, TLC

VARIABLES characters,     \* let characters = []               (line 13)
          loadPc,         \* where the load handler stands     (lines 205-208, 19-28)
          response,       \* const response of loadCharacters  (line 21)
          errorHTML,      \* errorDiv.innerHTML
          errorClass,     \* errorDiv.className
          errorDisplay,   \* errorDiv.style.display
          pairingDisplay, \* pairingDiv.style.display
          caller,         \* who called getPairing last
          subgroup,       \* getPairing's argument
          mode,           \* getPairing's argument
          subgroupChars,  \* const subgroupChars               (line 62)
          first,          \* male / male1 / female1
          second,         \* female / male2 / female2
          pc,             \* position of the getPairing call
          result,         \* what getPairing returned
          readAt          \* loadPc when the call read the roster (line 62)

dom  == <<errorHTML, errorClass, errorDisplay, pairingDisplay>>
call == <<caller, subgroup, mode, subgroupChars, first, second, pc, result, readAt>>
load == <<characters, loadPc, response>>
vars == <<characters, loadPc, response, errorHTML, errorClass, errorDisplay,
          pairingDisplay, caller, subgroup, mode, subgroupChars, first, second,
          pc, result, readAt>>

(***************************************************************************)
(* Bounds and input sets                                                   *)
(***************************************************************************)
\* longest roster document the fetch can deliver
MaxLen == 2

\* Character records the roster documents are built from: two versions of one
\* male (same characterId), two versions of one female, a female that shares
\* characterId and image with the first male, and a male outside "game".
Cast ==
  { [characterId |-> 1, image |-> "phoenix1", name |-> "Phoenix",
     gender |-> "male", tags |-> {"pw1", "game"}],
    [characterId |-> 1, image |-> "phoenix2", name |-> "Phoenix (AA4)",
     gender |-> "male", tags |-> {"game"}],
    [characterId |-> 2, image |-> "maya1", name |-> "Maya",
     gender |-> "female", tags |-> {"pw1", "game"}],
    [characterId |-> 2, image |-> "maya2", name |-> "Maya (SoJ)",
     gender |-> "female", tags |-> {"game"}],
    [characterId |-> 1, image |-> "phoenix1", name |-> "Feenie",
     gender |-> "female", tags |-> {"pw1", "game"}],
    [characterId |-> 3, image |-> "edgeworth1", name |-> "Edgeworth",
     gender |-> "male", tags |-> {"pw1"}] }

Rosters == UNION { [1..n -> Cast] : n \in 0..MaxLen }

Tags      == {"pw1", "game"}
Subgroups == {"all"} \cup Tags

\* the value of #pairingSelector after split('-'): <<subgroup, mode token>>
Selectors == { <<s, t>> : s \in Subgroups, t \in {"normal", "MM", "FF"} }

\* bodies of a response that is not ok: they may parse all the same
ErrorBodies == { r \in Rosters : Len(r) <= 1 }

\* what `await fetch(...)` / `await response.json()` can deliver
Responses ==
  { [rejected |-> TRUE, ok |-> FALSE, parses |-> FALSE, body |-> <<>>] }
  \cup { [rejected |-> FALSE, ok |-> o, parses |-> FALSE, body |-> <<>>] : o \in BOOLEAN }
  \cup { [rejected |-> FALSE, ok |-> TRUE, parses |-> TRUE, body |-> r] : r \in Rosters }
  \cup { [rejected |-> FALSE, ok |-> FALSE, parses |-> TRUE, body |-> r] : r \in ErrorBodies }

(***************************************************************************)
(* Values                                                                  *)
(***************************************************************************)
MODES == [NORMAL |-> "hetero", MM |-> "homo-male", FF |-> "homo-female"]

\* modes a caller can pass to getPairing, one of them unknown
CallModes == {MODES.NORMAL, MODES.MM, MODES.FF, "poly"}

null       == [null |-> TRUE]
\* the null of getCharsByTag's tag parameter, a value no tag of a record equals
nullTag    == "<null>"
undefined  == [undefined |-> TRUE]
NoResponse == [rejected |-> FALSE, ok |-> FALSE, parses |-> FALSE, body |-> <<>>]
NoPairingMsg == "No valid pairing available for this selection."

(***************************************************************************)
(* Pure functions                                                          *)
(***************************************************************************)
\* a mutant: the null default is filtered like any tag
getCharsByTag_noNull(chars, tag) ==
  SelectSeq(chars, LAMBDA char : tag \in char.tags)

getCharsByTag(chars, tag) ==
  IF tag = nullTag THEN chars
  ELSE SelectSeq(chars, LAMBDA char : tag \in char.tags)

\* charArray[Math.floor(Math.random() * charArray.length)], k the floor
getRandomChar(charArray, k) == charArray[k + 1]

DrawIndexes(charArray) == 0 .. (Len(charArray) - 1)

TagOf(sub) == IF sub = "all" THEN nullTag ELSE sub

Males(chars)   == SelectSeq(chars, LAMBDA c : c.gender = "male")

Females(chars) == SelectSeq(chars, LAMBDA c : c.gender = "female")

\* a mutant: an unknown mode is served as the default mode
Branch_default(m) ==
  IF m = MODES.MM THEN "MM"
  ELSE IF m = MODES.FF THEN "FF"
  ELSE "NORMAL"

\* which `if (mode === ...)` block of getPairing runs
Branch(m) ==
  IF m = MODES.NORMAL THEN "NORMAL"
  ELSE IF m = MODES.MM THEN "MM"
  ELSE IF m = MODES.FF THEN "FF"
  ELSE "invalid"

\* a mutant: the homo checks ask for one candidate only
TooFew_one(chars, m) ==
  CASE Branch(m) = "NORMAL" -> Len(Males(chars)) = 0 \/ Len(Females(chars)) = 0
    [] Branch(m) = "MM"     -> Len(Males(chars)) < 1
    [] Branch(m) = "FF"     -> Len(Females(chars)) < 1
    [] OTHER                -> TRUE

\* the early `return null` of each block, and the fall through for an unknown mode
TooFew(chars, m) ==
  CASE Branch(m) = "NORMAL" -> Len(Males(chars)) = 0 \/ Len(Females(chars)) = 0
    [] Branch(m) = "MM"     -> Len(Males(chars)) < 2
    [] Branch(m) = "FF"     -> Len(Females(chars)) < 2
    [] OTHER                -> TRUE

\* a mutant: the first character is drawn from the whole subgroup
FirstPool_any(chars, m) == chars

\* the array the first character is drawn from
FirstPool(chars, m) ==
  IF Branch(m) = "FF" THEN Females(chars) ELSE Males(chars)

\* the array the second character is drawn from
SecondPool(chars, m) ==
  IF Branch(m) = "MM" THEN Males(chars) ELSE Females(chars)

VersionGuard(sub) == sub = "all" \/ sub = "game"

\* a mutant: the characterId test is left out
Redraw_noId(sub, m, a, b) ==
  IF Branch(m) = "NORMAL" THEN FALSE ELSE b.image = a.image

\* a mutant: the image test is left out
Redraw_noImage(sub, m, a, b) ==
  VersionGuard(sub) /\ b.characterId = a.characterId

\* the `while (...)` condition after a second draw b; the plain hetero draw
\* (line 82) is a single draw, i.e. a loop whose condition is false
Redraw(sub, m, a, b) ==
  IF Branch(m) = "NORMAL"
  THEN VersionGuard(sub) /\ b.characterId = a.characterId
  ELSE b.image = a.image
       \/ (VersionGuard(sub) /\ b.characterId = a.characterId)

\* the returned object
MakePairing(m, a, b) ==
  CASE Branch(m) = "NORMAL" -> [male |-> a, female |-> b]
    [] Branch(m) = "MM"     -> [male1 |-> a, male2 |-> b]
    [] OTHER                -> [female1 |-> a, female2 |-> b]

\* generatePairing, lines 150-157, on the split selector
FinalMode(sel) ==
  IF \E i \in DOMAIN sel : sel[i] = "MM" THEN MODES.MM
  ELSE IF \E i \in DOMAIN sel : sel[i] = "FF" THEN MODES.FF
  ELSE MODES.NORMAL

\* a mutant: the body is kept although the response is not ok
FetchThrows_noOk(resp) == resp.rejected

\* line 21 rejects or line 22 throws
FetchThrows(resp) == resp.rejected \/ ~resp.ok

\* line 23 rejects
JsonThrows(resp) == ~resp.parses

(***************************************************************************)
(* getPairing                                                              *)
(***************************************************************************)
\* lines 59-73, 91-99, 113-121, 134-135: filter, count check, first draw
GetPairingBegin(chars, who, sub, m) ==
  /\ caller' = who
  /\ subgroup' = sub
  /\ mode' = m
  /\ readAt' = loadPc'
  /\ subgroupChars' = getCharsByTag(chars, TagOf(sub))
  /\ second' = undefined
  /\ IF TooFew(subgroupChars', m)
     THEN /\ first' = undefined
          /\ pc' = "done"
          /\ result' = null
     ELSE /\ \E k \in DrawIndexes(FirstPool(subgroupChars', m)) :
               first' = getRandomChar(FirstPool(subgroupChars', m), k)
          /\ pc' = "loop"
          /\ result' = undefined

\* generatePairing up to its call of getPairing and, when that returns null
\* at once, to its return (lines 141-171)
GenerateBegin(chars, sel) ==
  /\ GetPairingBegin(chars, "generatePairing", sel[1], FinalMode(sel))
  /\ pairingDisplay' = "none"
  /\ errorDisplay' = errorDisplay
  /\ IF result' = null
     THEN errorClass' = "error" /\ errorHTML' = NoPairingMsg
     ELSE errorClass' = errorClass /\ errorHTML' = ""

(***************************************************************************)
(* Actions                                                                 *)
(***************************************************************************)
Init ==
  /\ characters = <<>>
  /\ loadPc = "init"
  /\ response = NoResponse
  /\ errorHTML = ""
  /\ errorClass = ""
  /\ errorDisplay = ""
  /\ pairingDisplay = ""
  /\ caller = "none"
  /\ subgroup = "all"
  /\ mode = MODES.NORMAL
  /\ subgroupChars = <<>>
  /\ first = undefined
  /\ second = undefined
  /\ pc = "idle"
  /\ result = undefined
  /\ readAt = "init"

\* the window's load event: the handler runs loadCharacters up to `await fetch`
WindowLoad ==
  /\ pc # "loop"
  /\ loadPc = "init"
  /\ loadPc' = "fetch"
  /\ UNCHANGED <<characters, response, dom, call>>

\* the fetch settles: on a rejection or a response that is not ok the catch
\* block runs, loadCharacters returns and the handler calls generatePairing;
\* otherwise loadCharacters suspends at `await response.json()`
FetchSettles(resp) ==
  /\ pc # "loop"
  /\ loadPc = "fetch"
  /\ response' = resp
  /\ characters' = characters
  /\ IF FetchThrows(resp)
     THEN /\ loadPc' = "done"
          /\ \E sel \in Selectors : GenerateBegin(characters', sel)
     ELSE /\ loadPc' = "json"
          /\ UNCHANGED <<dom, call>>

\* the body settles: the roster is assigned unless parsing failed, then the
\* handler calls generatePairing
JsonSettles(sel) ==
  /\ pc # "loop"
  /\ loadPc = "json"
  /\ loadPc' = "done"
  /\ response' = response
  /\ characters' = IF JsonThrows(response) THEN characters ELSE response.body
  /\ GenerateBegin(characters', sel)

\* generatePairing run as the handler of a user's request
generatePairing(sel) ==
  /\ pc # "loop"
  /\ UNCHANGED load
  /\ GenerateBegin(characters, sel)

\* getPairing called on its own
getPairing(sub, m) ==
  /\ pc # "loop"
  /\ UNCHANGED <<load, dom>>
  /\ GetPairingBegin(characters, "direct", sub, m)

\* one pass of the second draw (lines 78-80, 82, 104-108, 126-130); on exit
\* getPairing returns and, under generatePairing, lines 172-198 run
Draw(k) ==
  /\ pc = "loop"
  /\ k \in DrawIndexes(SecondPool(subgroupChars, mode))
  /\ second' = getRandomChar(SecondPool(subgroupChars, mode), k)
  /\ IF Redraw(subgroup, mode, first, second')
     THEN UNCHANGED <<pc, result, dom>>
     ELSE /\ pc' = "done"
          /\ result' = MakePairing(mode, first, second')
          /\ IF caller = "generatePairing"
             THEN /\ errorDisplay' = "none"
                  /\ pairingDisplay' = "grid"
                  /\ UNCHANGED <<errorHTML, errorClass>>
             ELSE UNCHANGED dom
  /\ UNCHANGED <<load, caller, subgroup, mode, subgroupChars, first, readAt>>

Next ==
  \/ WindowLoad
  \/ \E resp \in Responses : FetchSettles(resp)
  \/ \E sel \in Selectors : JsonSettles(sel)
  \/ \E sel \in Selectors : generatePairing(sel)
  \/ \E sub \in Subgroups, m \in CallModes : getPairing(sub, m)
  \/ \E k \in 0 .. (MaxLen - 1) : Draw(k)

Spec == Init /\ [][Next]_vars

\* every index is drawn again and again: Math.random is uniform
FairSpec == Spec /\ \A k \in 0 .. (MaxLen - 1) : WF_vars(Draw(k))

(***************************************************************************)
(* Vocabulary of the properties, stated on the roster itself               *)
(***************************************************************************)
\* the call that ran last returned a pairing
HasPairing == pc = "done" /\ result # null

\* the two characters of a pairing object, whatever its shape
Pair(r) ==
  IF "male" \in DOMAIN r THEN <<r.male, r.female>>
  ELSE IF "male1" \in DOMAIN r THEN <<r.male1, r.male2>>
  ELSE <<r.female1, r.female2>>

\* roster positions that belong to the subgroup of the call
InSubgroup == { i \in DOMAIN characters :
                  subgroup = "all" \/ subgroup \in characters[i].tags }

OfGender(g) == { i \in InSubgroup : characters[i].gender = g }

UniqueImages ==
  \A i, j \in DOMAIN characters :
    characters[i].image = characters[j].image => i = j

\* the count rule of the claim for the three modes
FewCandidates ==
  \/ mode = "hetero" /\ (OfGender("male") = {} \/ OfGender("female") = {})
  \/ mode = "homo-male" /\ Cardinality(OfGender("male")) < 2
  \/ mode = "homo-female" /\ Cardinality(OfGender("female")) < 2

NoDrawMade == first = undefined /\ second = undefined

\* roster positions a second draw may end on, for the first character a
PassesRedraw(a) ==
  { i \in OfGender(IF mode = "homo-male" THEN "male" ELSE "female") :
      /\ mode # "hetero" => characters[i].image # a.image
      /\ subgroup \in {"all", "game"} => characters[i].characterId # a.characterId }

LoadFailed ==
  loadPc = "done" /\ (response.rejected \/ ~response.ok \/ ~response.parses)

\* positions of the roster that carry tag t, and the filtered sequence they give
Tagged(t) == { i \in DOMAIN characters : t \in characters[i].tags }

RankIn(I, i) == Cardinality({ j \in I : j <= i })

IsFilterOf(r, I) ==
  /\ Len(r) = Cardinality(I)
  /\ \A i \in I : r[RankIn(I, i)] = characters[i]

(***************************************************************************)
(* Properties                                                              *)
(***************************************************************************)
\* C1: a pairing returned for subgroup "all" or "game", in any mode, holds two
\* characters with different characterId.
C1_DistinctCharacterId ==
  (HasPairing /\ subgroup \in {"all", "game"})
    => Pair(result)[1].characterId # Pair(result)[2].characterId

\* a pairing came back for "all" although the second pool held a version of
\* the first character
C1_Witness ==
  /\ HasPairing
  /\ subgroup = "all"
  /\ \E i \in OfGender(Pair(result)[2].gender) :
       characters[i].characterId = Pair(result)[1].characterId

\* C2: on a roster whose image values are unique, a pairing of any subgroup
\* and mode (hetero included) never holds two characters with the same image.
C2_DistinctImage ==
  (HasPairing /\ UniqueImages)
    => Pair(result)[1].image # Pair(result)[2].image

C2_Witness ==
  /\ HasPairing
  /\ UniqueImages
  /\ mode = "hetero"
  /\ Len(characters) = MaxLen

\* C3: a hetero pairing has a male under `male` and a female under `female`,
\* both from the subgroup's candidates; with one male and one female in the
\* subgroup it is exactly that pair.
C3_HeteroPairing ==
  (HasPairing /\ mode = "hetero")
    => /\ DOMAIN result = {"male", "female"}
       /\ result.male.gender = "male"
       /\ result.female.gender = "female"
       /\ \E i \in InSubgroup : characters[i] = result.male
       /\ \E i \in InSubgroup : characters[i] = result.female
       /\ \A i, j \in InSubgroup :
            (OfGender("male") = {i} /\ OfGender("female") = {j})
              => result = [male |-> characters[i], female |-> characters[j]]

C3_Witness ==
  /\ HasPairing
  /\ mode = "hetero"
  /\ Cardinality(OfGender("male")) = 1
  /\ Cardinality(OfGender("female")) = 1

\* C4: with too few candidates of the needed gender getPairing returns null,
\* and it has drawn nothing.
C4_NullOnFewCandidates ==
  (caller # "none" /\ FewCandidates)
    => (pc = "done" /\ result = null /\ NoDrawMade)

C4_Witness ==
  /\ caller # "none"
  /\ mode = "homo-male"
  /\ Cardinality(OfGender("male")) = 1
  /\ result = null

\* C5: a mode that is none of the three returns null and no draw is made.
C5_NullOnInvalidMode ==
  (caller # "none" /\ mode \notin {"hetero", "homo-male", "homo-female"})
    => (pc = "done" /\ result = null /\ NoDrawMade)

C5_Witness ==
  /\ caller # "none"
  /\ mode = "poly"
  /\ OfGender("male") # {}
  /\ OfGender("female") # {}
  /\ result = null

\* C6: after a generatePairing request whose selection failed, the error
\* element is visible with the "no valid pairing" text and the pairing
\* element is hidden.
C6_FailureShowsMessage ==
  (caller = "generatePairing" /\ pc = "done" /\ result = null)
    => /\ errorDisplay # "none"
       /\ errorHTML = NoPairingMsg
       /\ pairingDisplay = "none"

\* C7: no call reads the roster while loadCharacters is suspended.
C7_LoadBeforeFirstRequest ==
  caller # "none" => readAt \notin {"fetch", "json"}

\* C8: getCharsByTag(tag) is the roster's characters that carry the tag, in
\* roster order (empty when none does), and getCharsByTag(null) is the roster.
C8_FilterByTag ==
  /\ \A t \in Tags \cup {"aa4"} :
       IsFilterOf(getCharsByTag(characters, t), Tagged(t))
  /\ getCharsByTag(characters, nullTag) = characters
  /\ caller # "none" => IsFilterOf(subgroupChars, InSubgroup)

C8_Witness ==
  /\ caller # "none"
  /\ subgroup = "pw1"
  /\ Len(subgroupChars) = 1
  /\ Len(characters) = MaxLen
  /\ characters[MaxLen] = subgroupChars[1]

\* C9: after a failed load the roster is the empty list and the selection
\* requests return null.
C9_FailedLoadLeavesEmpty ==
  LoadFailed
    => /\ characters = <<>>
       /\ caller # "none"
       /\ pc = "done"
       /\ result = null

C9_Witness ==
  /\ LoadFailed
  /\ response.parses
  /\ response.body # <<>>
  /\ caller = "direct"
  /\ result = null

\* C10: past the count check and the first draw, getPairing returns a pairing
\* exactly when some candidate passes the redraw rule for the first character;
\* when none does the call stays in its loop.
C10_ReturnsIffCandidate ==
  /\ (pc = "loop" /\ PassesRedraw(first) # {}) ~> HasPairing
  /\ [][(pc = "loop" /\ PassesRedraw(first) = {}) => pc' = "loop"]_vars

\* at least two males in "all", all one characterId, and a draw was rejected
C10_Witness ==
  /\ pc = "loop"
  /\ subgroup = "all"
  /\ mode = "homo-male"
  /\ Cardinality(OfGender("male")) >= 2
  /\ PassesRedraw(first) = {}
  /\ second # undefined
  /\ second.image # first.image

====
